---------------------------- MODULE Spec2Model ----------------------------
(***************************************************************************)
(* Model of medaka's inference data pipeline (medaka/prediction.py):       *)
(* DataLoader with its region workers, its batch worker and the consumer   *)
(* that iterates over it.                                                  *)
(*                                                                         *)
(* Threads are modelled by one program counter each.  The polling loops    *)
(* of the code (get_nowait / except queue.Empty: pass) are modelled as     *)
(* actions guarded by a non-empty queue: a poll of an empty queue changes  *)
(* nothing.  queue.Queue.put blocks while the queue is full; a queue of    *)
(* maxsize <= 0 is never full (Python's queue module).  A thread whose     *)
(* target raises has no handler: it ends where it is ("raised").          *)
(*                                                                         *)
(* The drivers run_prediction and predict are modelled on top of the       *)
(* loader: run_prediction iterates over one loader, persists every sample  *)
(* of every batch and returns the loader's remainders; predict runs it     *)
(* once, and a second time on the remainders of the first run.             *)
(***************************************************************************)
EXTENDS Integers, Sequences, FiniteSets, TLC

\* ------------------------------------------------------------- bounds
MaxWorkers == 2
MaxBatchSize == 2
MaxBatchCache == 2
MaxRegions == 2
MaxSamples == 2
MaxRemain == 1
MaxAppend == 2
MaxShape == 2

VARIABLES
    arg_bam_workers,    \* the bam_workers argument of the loader's caller
    regions,            \* the regions argument: the regions to process
    enable_chunking,    \* the enable_chunking keyword argument
    bam_workers,        \* self.bam_workers
    batch_size,         \* self.batch_size
    sample_cache_size,  \* maxsize of self._samples
    gen,                \* what sample generation returns for each region
    _regions,           \* self._regions, the intake queue
    _samples,           \* self._samples
    _batches,           \* self._batches
    remainders,         \* self.remainders
    wpc,                \* position of each region worker
    wpending,           \* samples of the current region not yet put
    wregion,            \* region a worker is processing (0: none)
    wstops,             \* number of sentinels each worker has put
    ngen,               \* number of _run_region calls made for each region
    bpc,                \* position of the batch worker
    nstops,             \* _get_samples' nstops
    group,              \* the group the grouper is filling
    exhausted,          \* _get_samples has returned
    cpc,                \* position of the consumer
    ncalls,             \* number of calls of __next__
    delivered,          \* batches __next__ has returned, in order
    delivered_x,        \* the stacked arrays returned with them
    eos,                \* number of times __next__ raised StopIteration
    ppc,                \* position of predict / run_prediction
    written,            \* samples run_prediction has persisted, per batch
    remainder_regions,  \* what the first run_prediction returned
    new_remainders      \* what the second run_prediction returned

vars == <<arg_bam_workers, regions, enable_chunking, bam_workers, batch_size,
          sample_cache_size, gen, _regions, _samples, _batches, remainders,
          wpc, wpending, wregion, wstops, ngen, bpc, nstops, group, exhausted,
          cpc, ncalls, delivered, delivered_x, eos, ppc, written,
          remainder_regions, new_remainders>>

config == <<arg_bam_workers, regions, enable_chunking, bam_workers, batch_size,
            sample_cache_size, gen>>
workerVars == <<wpc, wpending, wregion, wstops, ngen>>
batcherVars == <<bpc, nstops, group, exhausted>>
consumerVars == <<cpc, ncalls, delivered, delivered_x, eos>>
driverVars == <<ppc, written, remainder_regions, new_remainders>>

\* ------------------------------------------------------------- values
\* The sentinel StopIteration as an item of the sample queue.
StopSample == [r |-> 0, i |-> 0]
\* The sentinel StopIteration as an item of the batch queue.
StopBatch == [stop |-> TRUE, data |-> <<>>, batch |-> <<>>]

Workers == 1..bam_workers
Regions == 1..Len(gen)

\* data_gen.samples of region r, in generation order.
RegionSamples(r) == [i \in 1..gen[r].n |-> [r |-> r, i |-> i]]
\* data_gen._quarantined of region r.
RegionRemain(r) == [j \in 1..gen[r].rem |-> [r |-> r, i |-> j]]
\* x.features: the shape of the feature matrix of a sample.
Features(x) == gen[x.r].shape

\* ------------------------------------------------------------- queues
\* queue.Queue(maxsize): full only when maxsize > 0 and qsize() >= maxsize.
\* faulty variants of QFull: a queue with no limit at all, and a queue that
\* treats maxsize 0 as a rendezvous of one item
QFullNever(q, maxsize) == FALSE
QFullRendezvous(q, maxsize) == Len(q) >= (IF maxsize > 0 THEN maxsize ELSE 1)
QFull(q, maxsize) == maxsize > 0 /\ Len(q) >= maxsize
\* put appends at the tail, get_nowait takes the head.
\* (QPutLifo: the faulty variant of a last-in first-out queue)
QPutLifo(q, x) == <<x>> \o q
QPut(q, x) == Append(q, x)

\* sample_cache_size = batch_cache_size * batch_size
SampleCacheSize(batch_cache_size, bs) == batch_cache_size * bs
\* batch_cache_size = 0  # batch things ASAP
BatchQueueMaxsize == 0

\* ------------------------------------------------------------- Init
GenNormal == [n : 0..MaxSamples, rem : 0..MaxAppend, raises : {FALSE}, shape : {1}]
GenDriver == [n : 0..MaxSamples, rem : 0..MaxRemain, raises : {FALSE}, shape : {1}]
GenAny == [n : 0..MaxSamples, rem : 0..MaxRemain, raises : BOOLEAN, shape : 1..MaxShape]

RegionLists(G) == UNION {[1..k -> G] : k \in 0..MaxRegions}

\* the regions handed to a first loader: region r as a whole
WholeRegions(n) == [r \in 1..n |-> [r |-> r, i |-> 0]]

\* DataLoader.__init__, constructed by a caller that names W workers
InitFor(W, G) ==
    /\ bam_workers \in W
    /\ arg_bam_workers = bam_workers
    /\ enable_chunking = TRUE
    /\ ppc = "direct"
    /\ written = <<>>
    /\ remainder_regions = <<>>
    /\ new_remainders = <<>>
    /\ batch_size \in 1..MaxBatchSize
    /\ \E bcs \in 1..MaxBatchCache : sample_cache_size = SampleCacheSize(bcs, batch_size)
    /\ gen \in RegionLists(G)
    /\ regions = WholeRegions(Len(gen))
    /\ ngen = [r \in 1..Len(gen) |-> 0]
    /\ _regions = [r \in 1..Len(gen) |-> r]
    /\ _samples = <<>>
    /\ _batches = <<>>
    /\ remainders = <<>>
    /\ wpc = [w \in 1..bam_workers |-> "get"]
    /\ wpending = [w \in 1..bam_workers |-> <<>>]
    /\ wregion = [w \in 1..bam_workers |-> 0]
    /\ wstops = [w \in 1..bam_workers |-> 0]
    /\ bpc = "collect"
    /\ nstops = 0
    /\ group = <<>>
    /\ exhausted = FALSE
    /\ cpc = "idle"
    /\ ncalls = 0
    /\ delivered = <<>>
    /\ delivered_x = <<>>
    /\ eos = 0

InitWith(G) == InitFor(1..MaxWorkers, G)
Init == InitWith(GenNormal)
InitErr == InitWith(GenAny)

\* ------------------------------------------------------------- grouping
\* medaka.common.grouper(gen, batch_size): a group is yielded once it holds
\* batch_size elements; when the generator ends, a non-empty partial group
\* is yielded as it is (no padding) and an empty one is not yielded.
GroupFull(g, size) == Len(g) = size
EmitAtEnd(g) == Len(g) > 0

\* the size _batch_worker hands to the grouper
\* (BatchWorkerGroupSizeOffByOne: the faulty variant that is one too large)
BatchWorkerGroupSizeOffByOne(bs) == bs + 1
BatchWorkerGroupSize(bs) == bs

\* if nstops == self.bam_workers
\* (AnyStopped: the faulty variant that stops at the first sentinel)
AnyStopped(n, workers) == n >= 1
AllStopped(n, workers) == n = workers

\* np.stack([x.features for x in data]) raises unless all shapes agree.
Stackable(g) == \A a, b \in 1..Len(g) : Features(g[a]) = Features(g[b])
\* the stacked array: one slice per sample, in order
Stack(g) == [k \in 1..Len(g) |-> Features(g[k])]

\* ------------------------------------------------------------- region worker
\* region = self._regions.get_nowait(); samples, remain = self._run_region(...)
\* (RegionWorkerGetPeek: the faulty variant that leaves the region queued)
RegionWorkerGetPeek(w) ==
    /\ wpc[w] = "get"
    /\ _regions # <<>>
    /\ ~gen[Head(_regions)].raises
    /\ wregion' = [wregion EXCEPT ![w] = Head(_regions)]
    /\ ngen' = [ngen EXCEPT ![Head(_regions)] = @ + 1]
    /\ wpending' = [wpending EXCEPT ![w] = RegionSamples(Head(_regions))]
    /\ wpc' = [wpc EXCEPT ![w] = "put"]
    /\ UNCHANGED <<config, driverVars, _regions, _samples, _batches, remainders,
                   wstops, batcherVars, consumerVars>>
RegionWorkerGet(w) ==
    /\ wpc[w] = "get"
    /\ _regions # <<>>
    /\ ~gen[Head(_regions)].raises
    /\ _regions' = Tail(_regions)
    /\ wregion' = [wregion EXCEPT ![w] = Head(_regions)]
    /\ ngen' = [ngen EXCEPT ![Head(_regions)] = @ + 1]
    /\ wpending' = [wpending EXCEPT ![w] = RegionSamples(Head(_regions))]
    /\ wpc' = [wpc EXCEPT ![w] = "put"]
    /\ UNCHANGED <<config, driverVars, _samples, _batches, remainders, wstops,
                   batcherVars, consumerVars>>

\* _run_region raises: the exception ends the thread (no handler).
RegionWorkerRaise(w) ==
    /\ wpc[w] = "get"
    /\ _regions # <<>>
    /\ gen[Head(_regions)].raises
    /\ _regions' = Tail(_regions)
    /\ wregion' = [wregion EXCEPT ![w] = Head(_regions)]
    /\ ngen' = [ngen EXCEPT ![Head(_regions)] = @ + 1]
    /\ wpc' = [wpc EXCEPT ![w] = "raised"]
    /\ UNCHANGED <<config, driverVars, _samples, _batches, remainders, wpending, wstops,
                   batcherVars, consumerVars>>

\* for sample in samples: self._samples.put(sample)
RegionWorkerPut(w) ==
    /\ wpc[w] = "put"
    /\ wpending[w] # <<>>
    /\ ~QFull(_samples, sample_cache_size)
    /\ _samples' = QPut(_samples, Head(wpending[w]))
    /\ wpending' = [wpending EXCEPT ![w] = Tail(wpending[w])]
    /\ UNCHANGED <<config, driverVars, _regions, _batches, remainders, wpc, wregion, wstops, ngen,
                   batcherVars, consumerVars>>

\* self.remainders.extend(remain); self._regions.task_done()
\* (RegionWorkerExtendDropped: the faulty variant that forgets the extend;
\* RegionWorkerExtendRacy: the faulty variant that writes back a copy of the
\* list read some time before, as an unguarded read-modify-write would)
RegionWorkerExtendRacy(w) ==
    /\ wpc[w] = "put"
    /\ wpending[w] = <<>>
    /\ \E n \in 0..Len(remainders) :
          remainders' = SubSeq(remainders, 1, n) \o RegionRemain(wregion[w])
    /\ wregion' = [wregion EXCEPT ![w] = 0]
    /\ wpc' = [wpc EXCEPT ![w] = "get"]
    /\ UNCHANGED <<config, driverVars, _regions, _samples, _batches, wpending,
                   wstops, ngen, batcherVars, consumerVars>>
RegionWorkerExtendDropped(w) ==
    /\ wpc[w] = "put"
    /\ wpending[w] = <<>>
    /\ wregion' = [wregion EXCEPT ![w] = 0]
    /\ wpc' = [wpc EXCEPT ![w] = "get"]
    /\ UNCHANGED <<config, driverVars, _regions, _samples, _batches, remainders, wpending,
                   wstops, ngen, batcherVars, consumerVars>>
RegionWorkerExtend(w) ==
    /\ wpc[w] = "put"
    /\ wpending[w] = <<>>
    /\ remainders' = remainders \o RegionRemain(wregion[w])
    /\ wregion' = [wregion EXCEPT ![w] = 0]
    /\ wpc' = [wpc EXCEPT ![w] = "get"]
    /\ UNCHANGED <<config, driverVars, _regions, _samples, _batches, wpending, wstops, ngen,
                   batcherVars, consumerVars>>

\* except queue.Empty: the worker goes on to put its sentinel
\* (RegionWorkerEmptyEarly: the faulty variant that gives up one region early)
RegionWorkerEmptyEarly(w) ==
    /\ wpc[w] = "get"
    /\ Len(_regions) <= 1
    /\ wpc' = [wpc EXCEPT ![w] = "stop"]
    /\ UNCHANGED <<config, driverVars, _regions, _samples, _batches, remainders,
                   wpending, wregion, wstops, ngen, batcherVars, consumerVars>>
RegionWorkerEmpty(w) ==
    /\ wpc[w] = "get"
    /\ _regions = <<>>
    /\ wpc' = [wpc EXCEPT ![w] = "stop"]
    /\ UNCHANGED <<config, driverVars, _regions, _samples, _batches, remainders, wpending,
                   wregion, wstops, ngen, batcherVars, consumerVars>>

\* self._samples.put(StopIteration); break
\* (RegionWorkerStopSilent: the faulty variant that exits without sentinel;
\* RegionWorkerStopLoops: the faulty variant without the break)
RegionWorkerStopLoops(w) ==
    /\ wpc[w] = "stop"
    /\ ~QFull(_samples, sample_cache_size)
    /\ _samples' = QPut(_samples, StopSample)
    /\ wstops' = [wstops EXCEPT ![w] = @ + 1]
    /\ wpc' = [wpc EXCEPT ![w] = "get"]
    /\ UNCHANGED <<config, driverVars, _regions, _batches, remainders, wpending,
                   wregion, ngen, batcherVars, consumerVars>>
RegionWorkerStopSilent(w) ==
    /\ wpc[w] = "stop"
    /\ wpc' = [wpc EXCEPT ![w] = "done"]
    /\ UNCHANGED <<config, driverVars, _regions, _samples, _batches, remainders, wpending,
                   wregion, wstops, ngen, batcherVars, consumerVars>>
RegionWorkerStop(w) ==
    /\ wpc[w] = "stop"
    /\ ~QFull(_samples, sample_cache_size)
    /\ _samples' = QPut(_samples, StopSample)
    /\ wstops' = [wstops EXCEPT ![w] = @ + 1]
    /\ wpc' = [wpc EXCEPT ![w] = "done"]
    /\ UNCHANGED <<config, driverVars, _regions, _batches, remainders, wpending, wregion, ngen,
                   batcherVars, consumerVars>>

\* ------------------------------------------------------------- batch worker
\* _get_samples yields a sample; the grouper appends it to its group
BatchWorkerGetSample ==
    /\ bpc = "collect"
    /\ _samples # <<>>
    /\ Head(_samples) # StopSample
    /\ _samples' = Tail(_samples)
    /\ group' = Append(group, Head(_samples))
    /\ bpc' = IF GroupFull(group', BatchWorkerGroupSize(batch_size))
              THEN "put" ELSE "collect"
    /\ UNCHANGED <<config, driverVars, _regions, _batches, remainders, workerVars,
                   nstops, exhausted, consumerVars>>

\* _get_samples pops a sentinel: nstops += 1, and it returns at the last one
\* (BatchWorkerGetStopTestFirst: the faulty variant that also tests the
\* counter before it pops)
BatchWorkerGetStopTestFirst ==
    /\ bpc = "collect"
    /\ \/ /\ AllStopped(nstops, bam_workers)
          /\ exhausted' = TRUE
          /\ bpc' = IF EmitAtEnd(group) THEN "put" ELSE "stop"
          /\ UNCHANGED <<_samples, nstops>>
       \/ /\ ~AllStopped(nstops, bam_workers)
          /\ _samples # <<>>
          /\ Head(_samples) = StopSample
          /\ _samples' = Tail(_samples)
          /\ nstops' = nstops + 1
          /\ IF AllStopped(nstops', bam_workers)
             THEN /\ exhausted' = TRUE
                  /\ bpc' = IF EmitAtEnd(group) THEN "put" ELSE "stop"
             ELSE UNCHANGED <<exhausted, bpc>>
    /\ UNCHANGED <<config, driverVars, _regions, _batches, remainders, workerVars,
                   group, consumerVars>>
BatchWorkerGetStop ==
    /\ bpc = "collect"
    /\ _samples # <<>>
    /\ Head(_samples) = StopSample
    /\ _samples' = Tail(_samples)
    /\ nstops' = nstops + 1
    /\ IF AllStopped(nstops', bam_workers)
       THEN /\ exhausted' = TRUE
            /\ bpc' = IF EmitAtEnd(group) THEN "put" ELSE "stop"
       ELSE UNCHANGED <<exhausted, bpc>>
    /\ UNCHANGED <<config, driverVars, _regions, _batches, remainders, workerVars,
                   group, consumerVars>>

\* batch = np.stack(...); data = [...]; self._batches.put((data, batch))
BatchWorkerPut ==
    /\ bpc = "put"
    /\ Stackable(group)
    /\ ~QFull(_batches, BatchQueueMaxsize)
    /\ _batches' = QPut(_batches, [stop |-> FALSE, data |-> group,
                                   batch |-> Stack(group)])
    /\ group' = <<>>
    /\ bpc' = IF exhausted THEN "stop" ELSE "collect"
    /\ UNCHANGED <<config, driverVars, _regions, _samples, remainders, workerVars,
                   nstops, exhausted, consumerVars>>

\* np.stack raises ValueError: the exception ends the thread (no handler).
BatchWorkerRaise ==
    /\ bpc = "put"
    /\ ~Stackable(group)
    /\ bpc' = "raised"
    /\ UNCHANGED <<config, driverVars, _regions, _samples, _batches, remainders, workerVars,
                   nstops, group, exhausted, consumerVars>>

\* self._batches.put(StopIteration)
\* (BatchWorkerStopSilent: the faulty variant that exits without sentinel;
\* BatchWorkerStopStays: the faulty variant that does not exit)
BatchWorkerStopStays ==
    /\ bpc = "stop"
    /\ ~QFull(_batches, BatchQueueMaxsize)
    /\ _batches' = QPut(_batches, StopBatch)
    /\ UNCHANGED <<config, driverVars, _regions, _samples, remainders, workerVars,
                   bpc, nstops, group, exhausted, consumerVars>>
BatchWorkerStopSilent ==
    /\ bpc = "stop"
    /\ bpc' = "done"
    /\ UNCHANGED <<config, driverVars, _regions, _samples, _batches, remainders, workerVars,
                   nstops, group, exhausted, consumerVars>>
BatchWorkerStop ==
    /\ bpc = "stop"
    /\ ~QFull(_batches, BatchQueueMaxsize)
    /\ _batches' = QPut(_batches, StopBatch)
    /\ bpc' = "done"
    /\ UNCHANGED <<config, driverVars, _regions, _samples, remainders, workerVars,
                   nstops, group, exhausted, consumerVars>>

\* ------------------------------------------------------------- consumer
\* the consumer calls __next__
ConsumerCall ==
    /\ cpc = "idle"
    /\ cpc' = "polling"
    /\ ncalls' = ncalls + 1
    /\ UNCHANGED <<config, driverVars, _regions, _samples, _batches, remainders, workerVars,
                   batcherVars, delivered, delivered_x, eos>>

\* batch = self._batches.get_nowait(); ...; return batch
NextBatch ==
    /\ cpc = "polling"
    /\ _batches # <<>>
    /\ ~Head(_batches).stop
    /\ _batches' = Tail(_batches)
    /\ delivered' = Append(delivered, Head(_batches).data)
    /\ delivered_x' = Append(delivered_x, Head(_batches).batch)
    /\ cpc' = "idle"
    /\ UNCHANGED <<config, driverVars, _regions, _samples, remainders, workerVars,
                   batcherVars, ncalls, eos>>

\* if batch is StopIteration: break; raise StopIteration
\* (NextStopKeepsSentinel: the faulty variant that leaves the sentinel queued)
NextStopKeepsSentinel ==
    /\ cpc = "polling"
    /\ _batches # <<>>
    /\ Head(_batches).stop
    /\ eos' = eos + 1
    /\ cpc' = "idle"
    /\ UNCHANGED <<config, driverVars, _regions, _samples, _batches, remainders,
                   workerVars, batcherVars, ncalls, delivered, delivered_x>>
NextStop ==
    /\ cpc = "polling"
    /\ _batches # <<>>
    /\ Head(_batches).stop
    /\ _batches' = Tail(_batches)
    /\ eos' = eos + 1
    /\ cpc' = "idle"
    /\ UNCHANGED <<config, driverVars, _regions, _samples, remainders, workerVars,
                   batcherVars, ncalls, delivered, delivered_x>>

\* ------------------------------------------------------------- specifications
RegionWorker(w) ==
    /\ w \in Workers
    /\ \/ RegionWorkerGet(w)
       \/ RegionWorkerPut(w)
       \/ RegionWorkerExtend(w)
       \/ RegionWorkerEmpty(w)
       \/ RegionWorkerStop(w)
BatchWorker == BatchWorkerGetSample \/ BatchWorkerGetStop \/ BatchWorkerPut
                 \/ BatchWorkerStop
Consumer == ConsumerCall \/ NextBatch \/ NextStop

Next ==
    \/ \E w \in Workers : RegionWorkerGet(w)
    \/ \E w \in Workers : RegionWorkerPut(w)
    \/ \E w \in Workers : RegionWorkerExtend(w)
    \/ \E w \in Workers : RegionWorkerEmpty(w)
    \/ \E w \in Workers : RegionWorkerStop(w)
    \/ BatchWorkerGetSample
    \/ BatchWorkerGetStop
    \/ BatchWorkerPut
    \/ BatchWorkerStop
    \/ ConsumerCall
    \/ NextBatch
    \/ NextStop

NextErr ==
    \/ Next
    \/ \E w \in Workers : RegionWorkerRaise(w)
    \/ BatchWorkerRaise

\* Every thread that can take a step eventually takes one (the operating
\* system schedules each running thread), and the consumer keeps calling.
Fairness ==
    /\ \A w \in 1..MaxWorkers : WF_vars(RegionWorker(w))
    /\ WF_vars(BatchWorker)
    /\ WF_vars(Consumer)

Spec == Init /\ [][Next]_vars
FairSpec == Init /\ [][Next]_vars /\ Fairness
SpecErr == InitErr /\ [][NextErr]_vars
FairSpecErr == InitErr /\ [][NextErr]_vars /\ Fairness

\* ------------------------------------------------------------- drivers
\* run_prediction constructs its loader with batch_cache_size=8, bam_workers=2
LoaderBatchCacheSize == 8
LoaderBamWorkers == 2
\* the default of run_prediction's bam_workers parameter
DefaultBamWorkers == 2
\* predict's second run: batch_size=1, "everything is a different size"
RemainderBatchSize == 1

\* the worker count run_prediction gives its loader, whatever it was given
RunPredictionWorkers(given) == LoaderBamWorkers

\* class_probs = model.predict_on_batch(x_data): one row for each row
PredictOnBatch(x_data) == [k \in 1..Len(x_data) |-> [probs_for |-> x_data[k]]]
MinLen(a, b, c) ==
    IF Len(a) <= Len(b) /\ Len(a) <= Len(c) THEN Len(a)
    ELSE IF Len(b) <= Len(c) THEN Len(b) ELSE Len(c)
\* for sample, prob, feat in zip(data, class_probs, x_data):
\*     ds.write_sample(sample.amend(...))
\* (PersistedDropLast: the faulty variant that stops one sample early)
PersistedDropLast(data, class_probs, x_data) ==
    [k \in 1..(MinLen(data, class_probs, x_data) - 1) |-> data[k]]
Persisted(data, class_probs, x_data) ==
    [k \in 1..MinLen(data, class_probs, x_data) |-> data[k]]

\* remainers = [r[0] for r in remainder_regions]
RemainderRegion(item) == [r |-> item.r, i |-> item.i]
Remainers(items) == [k \in 1..Len(items) |-> RemainderRegion(items[k])]

Running == ppc \in {"run1", "run2"}

\* predict calls run_prediction for the first time
InitDriver ==
    /\ arg_bam_workers \in 1..MaxWorkers
    /\ bam_workers = RunPredictionWorkers(arg_bam_workers)
    /\ enable_chunking = TRUE
    /\ ppc = "run1"
    /\ written = <<>>
    /\ remainder_regions = <<>>
    /\ new_remainders = <<>>
    /\ batch_size \in 1..MaxBatchSize
    /\ sample_cache_size = SampleCacheSize(LoaderBatchCacheSize, batch_size)
    /\ gen \in RegionLists(GenDriver)
    /\ regions = WholeRegions(Len(gen))
    /\ ngen = [r \in 1..Len(gen) |-> 0]
    /\ _regions = [r \in 1..Len(gen) |-> r]
    /\ _samples = <<>>
    /\ _batches = <<>>
    /\ remainders = <<>>
    /\ wpc = [w \in 1..bam_workers |-> "get"]
    /\ wpending = [w \in 1..bam_workers |-> <<>>]
    /\ wregion = [w \in 1..bam_workers |-> 0]
    /\ wstops = [w \in 1..bam_workers |-> 0]
    /\ bpc = "collect"
    /\ nstops = 0
    /\ group = <<>>
    /\ exhausted = FALSE
    /\ cpc = "idle"
    /\ ncalls = 0
    /\ delivered = <<>>
    /\ delivered_x = <<>>
    /\ eos = 0

\* for data, x_data in loader: the next iteration, after the loop body
DriverCall ==
    /\ Running
    /\ eos = 0
    /\ Len(written) = Len(delivered)
    /\ ConsumerCall

\* the loop body: predict_on_batch, then write_sample for each sample
DriverWrite ==
    /\ Running
    /\ cpc = "idle"
    /\ Len(written) < Len(delivered)
    /\ LET k == Len(written) + 1
       IN written' = Append(written,
              Persisted(delivered[k], PredictOnBatch(delivered_x[k]), delivered_x[k]))
    /\ UNCHANGED <<config, _regions, _samples, _batches, remainders, workerVars,
                   batcherVars, consumerVars, ppc, remainder_regions,
                   new_remainders>>

\* remainder_regions = loader.remainders; return remainder_regions
DriverReturn ==
    /\ Running
    /\ eos = 1
    /\ cpc = "idle"
    /\ IF ppc = "run1"
       THEN /\ remainder_regions' = remainders
            /\ ppc' = "ret1"
            /\ UNCHANGED new_remainders
       ELSE /\ new_remainders' = remainders
            /\ ppc' = "ret2"
            /\ UNCHANGED remainder_regions
    /\ UNCHANGED <<config, _regions, _samples, _batches, remainders, workerVars,
                   batcherVars, consumerVars, written>>

\* if len(remainder_regions) > 0: the second run_prediction, on the
\* remainders, with batch_size=1 and enable_chunking=False
PredictSecondPass ==
    /\ ppc = "ret1"
    /\ Len(remainder_regions) > 0
    /\ ppc' = "run2"
    /\ regions' = Remainers(remainder_regions)
    /\ enable_chunking' = FALSE
    /\ arg_bam_workers' = DefaultBamWorkers
    /\ bam_workers' = RunPredictionWorkers(DefaultBamWorkers)
    /\ batch_size' = RemainderBatchSize
    /\ sample_cache_size' = SampleCacheSize(LoaderBatchCacheSize, RemainderBatchSize)
    /\ gen' \in [1..Len(remainder_regions) -> GenDriver]
    /\ ngen' = [r \in 1..Len(remainder_regions) |-> 0]
    /\ _regions' = [r \in 1..Len(remainder_regions) |-> r]
    /\ _samples' = <<>>
    /\ _batches' = <<>>
    /\ remainders' = <<>>
    /\ wpc' = [w \in 1..bam_workers' |-> "get"]
    /\ wpending' = [w \in 1..bam_workers' |-> <<>>]
    /\ wregion' = [w \in 1..bam_workers' |-> 0]
    /\ wstops' = [w \in 1..bam_workers' |-> 0]
    /\ bpc' = "collect"
    /\ nstops' = 0
    /\ group' = <<>>
    /\ exhausted' = FALSE
    /\ cpc' = "idle"
    /\ ncalls' = 0
    /\ delivered' = <<>>
    /\ delivered_x' = <<>>
    /\ eos' = 0
    /\ written' = <<>>
    /\ UNCHANGED <<remainder_regions, new_remainders>>

\* len(remainder_regions) == 0: nothing is left to do
PredictNoRemainders ==
    /\ ppc = "ret1"
    /\ Len(remainder_regions) = 0
    /\ ppc' = "finished"
    /\ UNCHANGED <<config, _regions, _samples, _batches, remainders, workerVars,
                   batcherVars, consumerVars, written, remainder_regions,
                   new_remainders>>

\* after the second run: new_remainders are logged as not processed
\* (PredictAfterSecondRetry: the faulty variant that runs them again)
PredictAfterSecondRetry ==
    /\ ppc = "ret2"
    /\ ppc' = "ret1"
    /\ remainder_regions' = new_remainders
    /\ UNCHANGED <<config, _regions, _samples, _batches, remainders, workerVars,
                   batcherVars, consumerVars, written, new_remainders>>
PredictAfterSecond ==
    /\ ppc = "ret2"
    /\ ppc' = "finished"
    /\ UNCHANGED <<config, _regions, _samples, _batches, remainders, workerVars,
                   batcherVars, consumerVars, written, remainder_regions,
                   new_remainders>>

NextDriver ==
    \/ \E w \in Workers : RegionWorkerGet(w)
    \/ \E w \in Workers : RegionWorkerPut(w)
    \/ \E w \in Workers : RegionWorkerExtend(w)
    \/ \E w \in Workers : RegionWorkerEmpty(w)
    \/ \E w \in Workers : RegionWorkerStop(w)
    \/ BatchWorkerGetSample
    \/ BatchWorkerGetStop
    \/ BatchWorkerPut
    \/ BatchWorkerStop
    \/ DriverCall
    \/ NextBatch
    \/ NextStop
    \/ DriverWrite
    \/ DriverReturn
    \/ PredictSecondPass
    \/ PredictNoRemainders
    \/ PredictAfterSecond

SpecDriver == InitDriver /\ [][NextDriver]_vars

\* a loader constructed with any worker count, none included
InitZero == InitFor(0..MaxWorkers, GenNormal)
SpecZero == InitZero /\ [][Next]_vars

\* ------------------------------------------------------------- derived values
RECURSIVE Flatten(_)
Flatten(ss) == IF ss = <<>> THEN <<>> ELSE Head(ss) \o Flatten(Tail(ss))

\* every sample, and every remainder item, that sample generation returns
AllSamples == UNION {{[r |-> r, i |-> i] : i \in 1..gen[r].n} : r \in Regions}
AllRemain == UNION {{[r |-> r, i |-> j] : j \in 1..gen[r].rem} : r \in Regions}

\* the samples handed to the consumer, in the order of delivery
Delivered == Flatten(delivered)
Range(s) == {s[k] : k \in DOMAIN s}
NoRepeat(s) == \A j, k \in DOMAIN s : j # k => s[j] # s[k]

\* batches in the batch queue that the consumer has not yet retrieved
InFlight == Cardinality({k \in DOMAIN _batches : ~_batches[k].stop})

WorkersExited == \A w \in Workers : wpc[w] = "done"
Terminated == eos = 1 /\ WorkersExited /\ bpc = "done" /\ nstops = bam_workers

\* ------------------------------------------------------------- claims

\* C1: once the consumer has observed end-of-stream, every sample that sample
\* generation produced is in exactly one delivered batch; at any time a
\* delivered batch holds only such samples (no sentinel, no placeholder) and
\* no sample is delivered twice.
C1_EverySampleExactlyOnce ==
    /\ \A k \in DOMAIN Delivered : Delivered[k] \in AllSamples
    /\ NoRepeat(Delivered)
    /\ eos >= 1 => Range(Delivered) = AllSamples
C1_Witness ==
    /\ eos = 1
    /\ bam_workers = 2
    /\ Len(gen) = 2
    /\ Cardinality(AllSamples) = 3
    /\ batch_size = 2
    /\ Len(delivered) = 2

\* C2: every delivered batch but the last holds exactly batch_size samples,
\* the last holds between 1 and batch_size, and at end-of-stream the number
\* of batches is the number of samples divided by batch_size, rounded up.
C2_BatchSizes ==
    /\ \A k \in DOMAIN delivered :
          /\ Len(delivered[k]) >= 1
          /\ Len(delivered[k]) <= batch_size
          /\ k < Len(delivered) => Len(delivered[k]) = batch_size
    /\ eos >= 1 =>
          Len(delivered) = (Cardinality(AllSamples) + batch_size - 1) \div batch_size
C2_Witness ==
    /\ eos = 1
    /\ Len(gen) = 2
    /\ batch_size = 2
    /\ Len(delivered) = 2
    /\ Len(delivered[1]) = 2
    /\ Len(delivered[2]) = 1

\* C3: two samples of the same region are delivered in the order of their
\* generation (an earlier batch, or the same batch at a smaller index).
C3_RegionOrderKept ==
    \A j, k \in DOMAIN Delivered :
        (j < k /\ Delivered[j].r = Delivered[k].r) => Delivered[j].i < Delivered[k].i
C3_Witness ==
    /\ bam_workers = 2
    /\ Len(Delivered) = 4
    /\ Delivered[1].r = 1
    /\ Delivered[2].r = 2
    /\ Delivered[3].r = 1
    /\ Delivered[4].r = 2

\* C6: when the consumer has observed end-of-stream every worker has exited
\* and the remainder list holds every remainder item exactly once; a region
\* with no sample and one remainder item adds that item and nothing to the
\* batches.
C6_RemaindersComplete ==
    eos >= 1 =>
        /\ WorkersExited
        /\ Range(remainders) = AllRemain
        /\ NoRepeat(remainders)
        /\ \A r \in Regions : (gen[r].n = 0 /\ gen[r].rem = 1) =>
              /\ Cardinality({k \in DOMAIN remainders : remainders[k].r = r}) = 1
              /\ \A k \in DOMAIN Delivered : Delivered[k].r # r
              /\ Range(Delivered) = {x \in AllSamples : x.r # r}
C6_Witness ==
    /\ eos = 1
    /\ Len(gen) = 2
    /\ gen[1].n = 0 /\ gen[1].rem = 1
    /\ gen[2].n = 2 /\ gen[2].rem = 1
    /\ Len(remainders) = 2
    /\ remainders[1].r = 2

C8_SampleQueueBackpressure ==
    /\ Len(_samples) <= sample_cache_size
    /\ Len(_samples) >= sample_cache_size =>
          \A w \in Workers : /\ ~ENABLED RegionWorkerPut(w)
                             /\ ~ENABLED RegionWorkerStop(w)
C8_Witness ==
    /\ Len(_samples) = sample_cache_size
    /\ \E w \in Workers : wpc[w] = "put" /\ wpending[w] # <<>>
    /\ \E w \in Workers : wpc[w] = "stop"

\* C4: with no failing sample generation and fair scheduling the pipeline
\* terminates: the batch worker pops exactly bam_workers sentinels, every
\* worker and the batch worker exit, the consumer observes end-of-stream,
\* and before that no state is a deadlock.
NoDeadlock == eos = 0 => ENABLED Next
C4_Terminates ==
    /\ [](NoDeadlock /\ nstops <= bam_workers)
    /\ <>Terminated
C4_Witness ==
    /\ Terminated
    /\ bam_workers = 2
    /\ Len(gen) = 2
    /\ wstops = [w \in Workers |-> 1]
    /\ Len(delivered) >= 2

\* C5: with an empty region list the consumer receives no batch, its first
\* call of __next__ ends the iteration, and that end is reached.
C5_EmptyRegionList ==
    /\ [](gen = <<>> => /\ delivered = <<>>
                        /\ InFlight = 0
                        /\ eos <= 1
                        /\ (eos = 1 /\ cpc = "idle") => ncalls = 1
                        /\ eos = 0 => ENABLED Next)
    /\ (gen = <<>>) ~> (eos = 1)
C5_Witness ==
    /\ gen = <<>>
    /\ eos = 1
    /\ ncalls = 1
    /\ bam_workers = 2

\* C9 as stated: a region worker that has exited, on whatever path, has put
\* its sentinel.
C9_EveryExitPutsSentinel ==
    \A w \in Workers : wpc[w] \in {"done", "raised"} => wstops[w] = 1

\* C10 as stated: once stacking has failed in the batch worker (and no
\* sample generation fails), the consumer eventually sees the failure or
\* the end of the stream instead of polling forever.
C10_StackFailureSurfaced ==
    (bpc = "raised" /\ \A r \in Regions : ~gen[r].raises)
        ~> (eos >= 1)

\* C11: run_prediction persists the samples of each delivered batch, each
\* once and in order, before it asks for the next batch; when it reads the
\* remainder list every sample the pipeline produced has been persisted
\* exactly once.
C11_PersistOncePerSample ==
    /\ Len(written) <= Len(delivered)
    /\ \A k \in DOMAIN written : written[k] = delivered[k]
    /\ NoRepeat(Flatten(written))
    /\ (cpc = "polling" \/ ~Running) => Len(written) = Len(delivered)
    /\ ppc \in {"ret1", "ret2", "finished"} => Range(Flatten(written)) = AllSamples
C11_Witness ==
    /\ ppc = "ret1"
    /\ remainder_regions # <<>>
    /\ Len(written) = 2
    /\ Len(written[1]) = 2
    /\ Len(written[2]) = 1

\* C12: predict starts a second pipeline only from the return of the first
\* run (end-of-stream seen, all threads exited) and only with a non-empty
\* remainder list; the second pipeline is given exactly the regions of that
\* list, batch size 1 and no chunking, and passes each of them to sample
\* generation once; after the second run nothing is started again.
SecondPass == ppc \in {"run2", "ret2"}
C12_State ==
    /\ ppc \in {"run1", "ret1"} =>
          /\ enable_chunking
          /\ regions = WholeRegions(Len(gen))
          /\ new_remainders = <<>>
    /\ SecondPass =>
          /\ remainder_regions # <<>>
          /\ regions = Remainers(remainder_regions)
          /\ Len(gen) = Len(remainder_regions)
          /\ batch_size = 1
          /\ ~enable_chunking
    /\ ppc = "ret2" => \A r \in Regions : ngen[r] = 1
    /\ ppc = "finished" =>
          /\ ~ENABLED NextDriver
          /\ (remainder_regions = <<>>) = enable_chunking
C12_Step ==
    /\ (ppc # "run2" /\ ppc' = "run2") =>
          /\ ppc = "ret1"
          /\ eos = 1
          /\ WorkersExited
          /\ bpc = "done"
          /\ remainder_regions = remainders
          /\ remainders # <<>>
    /\ (ppc # "ret1" \/ ppc' # "run2") => UNCHANGED config
    /\ ppc \in {"run2", "ret2", "finished"} => ppc' \in {"run2", "ret2", "finished"}
    /\ ppc = "ret2" => ppc' \in {"ret2", "finished"}
    /\ ppc = "finished" => ppc' = "finished"
\* C12: predict runs at most two pipelines, the second only from the return
\* of the first with a non-empty remainder list, on exactly those regions,
\* with batch size 1 and no chunking, and none after it
C12_AtMostTwoPasses == []C12_State /\ [][C12_Step]_vars
C12_Witness ==
    /\ ppc = "finished"
    /\ Len(remainder_regions) = 2
    /\ new_remainders # <<>>
    /\ written # <<>>

\* C17 as stated: the loader that run_prediction constructs starts as many
\* region workers, and waits for as many sentinels, as the bam_workers its
\* caller passed.
C17_WorkerCountForwarded ==
    Running => /\ Cardinality(DOMAIN wpc) = arg_bam_workers
               /\ bam_workers = arg_bam_workers

\* C13: every region is passed to sample generation at most once, it is
\* off the intake exactly when it has been passed, no two workers hold the
\* same region, and once all workers have exited every region has been
\* passed exactly once.
C13_RegionTakenOnce ==
    /\ \A r \in Regions :
          /\ ngen[r] <= 1
          /\ (ngen[r] = 0) = (\E k \in DOMAIN _regions : _regions[k] = r)
          /\ Cardinality({w \in Workers : wregion[w] = r}) <= 1
    /\ NoRepeat(_regions)
    /\ WorkersExited => \A r \in Regions : ngen[r] = 1
C13_Witness ==
    /\ bam_workers = 2
    /\ Len(gen) = 2
    /\ wregion[1] = 2
    /\ wregion[2] = 1

\* C14: a worker puts at most one sentinel, only when the intake is empty,
\* and it is the last thing the worker does: the worker has then put all
\* its samples, made all its appends, and takes no further step; the
\* sentinels put are those in the sample queue and those counted.
SentinelsQueued == Cardinality({k \in DOMAIN _samples : _samples[k] = StopSample})
SentinelsPut == Cardinality({w \in Workers : wstops[w] = 1})
C14_OneSentinelLast ==
    /\ \A w \in Workers :
          /\ wstops[w] <= 1
          /\ (wstops[w] = 1) = (wpc[w] = "done")
          /\ wstops[w] = 1 =>
                /\ _regions = <<>>
                /\ wpending[w] = <<>>
                /\ wregion[w] = 0
                /\ ~ENABLED RegionWorker(w)
    /\ SentinelsQueued + nstops = SentinelsPut
C14_Witness ==
    /\ bam_workers = 2
    /\ wstops[1] = 1
    /\ wpc[2] = "put"
    /\ wpending[2] # <<>>
    /\ \E k \in DOMAIN remainders : remainders[k].r = 1

\* C15: the batch worker puts the stream sentinel once, behind every batch,
\* after it has counted bam_workers sentinels and emptied its group; from
\* then on it takes no step and the batch queue does not grow.
StopsPushed == eos + Cardinality({k \in DOMAIN _batches : _batches[k].stop})
C15_State ==
    /\ StopsPushed <= 1
    /\ (StopsPushed = 1) = (bpc = "done")
    /\ bpc \in {"stop", "done"} =>
          /\ nstops = bam_workers
          /\ exhausted
          /\ group = <<>>
    /\ \A k \in DOMAIN _batches : _batches[k].stop => k = Len(_batches)
    /\ bpc = "done" => ~ENABLED BatchWorker
C15_Step ==
    /\ bpc = "stop" => bpc' \in {"stop", "done"}
    /\ bpc = "done" => (bpc' = "done" /\ Len(_batches') <= Len(_batches))
\* C15: the stream sentinel is put exactly once, behind the last batch and
\* after bam_workers sentinels were counted, and nothing is put after it
C15_StreamSentinelOnce == []C15_State /\ [][C15_Step]_vars
C15_Witness ==
    /\ bpc = "done"
    /\ batch_size = 2
    /\ Len(_batches) = 2
    /\ Len(_batches[1].data) = 1
    /\ _batches[2].stop
    /\ Len(delivered) = 1

\* C16: the intake holds all regions before the first pop and only shrinks;
\* it is always the list of the regions not yet taken, and a worker that
\* has seen it empty did so when every region had been taken.
C16_State ==
    /\ _regions = SubSeq([r \in 1..Len(gen) |-> r],
                         Len(gen) - Len(_regions) + 1, Len(gen))
    /\ (\A w \in Workers : wpc[w] = "get" /\ wregion[w] = 0) /\ (\A r \in Regions : ngen[r] = 0)
          => Len(_regions) = Len(gen)
    /\ \A w \in Workers : wpc[w] \in {"stop", "done"} =>
          /\ _regions = <<>>
          /\ \A r \in Regions : ngen[r] >= 1
C16_Step == Len(_regions') <= Len(_regions)
\* C16: all regions are queued before the first pop, none is added later,
\* and a worker sees the intake empty only when every region has been taken
C16_IntakeFilledFirst == []C16_State /\ [][C16_Step]_vars
C16_Witness ==
    /\ bam_workers = 2
    /\ Len(gen) = 2
    /\ wpc[1] = "stop"
    /\ wpc[2] = "put"
    /\ wregion[2] = 2
    /\ wpending[2] # <<>>

\* C18: at any time the remainder list holds the items of the appends made
\* so far, each item once, and the items of one append in their order next
\* to each other, whatever the interleaving of the workers.
Appended(r) == ngen[r] >= 1 /\ \A w \in Workers : wregion[w] # r
C18_AppendsKept ==
    /\ NoRepeat(remainders)
    /\ Range(remainders) = {x \in AllRemain : Appended(x.r)}
    /\ \A j, k \in DOMAIN remainders :
          (j < k /\ remainders[j].r = remainders[k].r) =>
              /\ remainders[j].i < remainders[k].i
              /\ \A m \in j..k : remainders[m].r = remainders[j].r
C18_Witness ==
    /\ bam_workers = 2
    /\ Len(remainders) = 3
    /\ remainders[1].r = 2
    /\ remainders[2].r = 1
    /\ remainders[3].r = 1
    /\ remainders[2].i < remainders[3].i

\* C19: a loader constructed with no worker never reaches end-of-stream:
\* no region is taken, no sentinel is put or counted, the batch worker never
\* leaves its collecting loop, nothing is put on the batch queue, and a
\* call of __next__ never returns.
C19_NoWorkersNoEnd ==
    bam_workers = 0 =>
        /\ eos = 0
        /\ delivered = <<>>
        /\ Len(_regions) = Len(gen)
        /\ _samples = <<>>
        /\ _batches = <<>>
        /\ nstops = 0
        /\ bpc = "collect"
        /\ ~ENABLED BatchWorker
        /\ cpc = "polling" => ~ENABLED Next
C19_Witness ==
    /\ bam_workers = 0
    /\ Len(gen) = 2
    /\ cpc = "polling"
    /\ ncalls = 1

\* C20: end-of-stream is delivered once; after it the batch queue is empty
\* and stays empty, the batch worker has exited, and a further call of
\* __next__ returns neither a batch nor a second end-of-stream.
C20_State ==
    /\ eos <= 1
    /\ eos = 1 =>
          /\ _batches = <<>>
          /\ bpc = "done"
          /\ ~ENABLED BatchWorker
          /\ ~ENABLED NextBatch
          /\ ~ENABLED NextStop
C20_Step ==
    eos = 1 =>
        /\ eos' = 1
        /\ delivered' = delivered
        /\ _batches' = <<>>
        /\ cpc = "polling" => cpc' = "polling"
\* C20: end-of-stream is delivered once, the batch queue stays empty after
\* it, and a further call of __next__ polls forever
C20_EndOfStreamOnce == []C20_State /\ [][C20_Step]_vars
C20_Witness ==
    /\ eos = 1
    /\ cpc = "polling"
    /\ delivered # <<>>
    /\ ncalls = Len(delivered) + 2

=============================================================================
